---- MODULE Spec2Model ----
(***************************************************************************)
(* Model of userland/translation_functions/lfpykernels_PotjansDiesmann.py  *)
(*                                                                         *)
(* Two state machines share this module:                                   *)
(*   Spec         the online LFP updater: PotjansDiesmannKernels.update    *)
(*                called by the co-simulation driver on spike buffers;     *)
(*   SpecKernels  the MPI precomputation run by __init__ on every rank:    *)
(*                _calculate_all_pathway_kernels, comm.Barrier(),          *)
(*                _load_pathway_kernels, _find_kernels.                    *)
(*                                                                         *)
(* Times are integers counted in ticks; the grid step dt is 2 ticks, so a  *)
(* spike can fall on a grid point or exactly midway between two of them.   *)
(* Kernel and LFP values are integers (the arithmetic of the code, exact). *)
(* Arrays are functions on 0..n-1, indexed as in the source.               *)
(***************************************************************************)
EXTENDS Integers, Sequences, FiniteSets, TLC

VARIABLES
    pop_kernels,   \* self.pop_kernels: pop_name -> elec_idx -> kernel row
    fr_dict,       \* self.fr_dict: pop_name -> firing-rate array
    lfp,           \* self.lfp: elec_idx -> LFP array
    buffer,        \* the buffer argument of the last update() call
    err,           \* the exception the last update() call raised, or "none"
    spikes_sent,   \* number of spike events the driver has delivered
    t_hist,        \* largest spike time of all earlier batches (-1: none)
    in_order,      \* every batch so far held registered ids only and spike
                   \*   times later than every spike time of the earlier ones
    covered,       \* the grid indices in the window [t0_idx, t1_idx) of a call
    windows_disjoint,  \* no two calls so far had a grid index in both windows
    prev,          \* fr_dict and lfp as they were before the last call
    size,          \* comm.Get_size()
    conn_probs,    \* self.conn_probs: pathway_name -> probability, in 1e-10
    overwrite_kernels,  \* self.overwrite_kernels
    pc,            \* rank -> position of the rank in __init__
    task_idx,      \* rank -> task_idx of _calculate_all_pathway_kernels
    files,         \* sim_savefolder: pathway_name -> kernel, for the files
    written,       \* pathway_name -> ranks that wrote the file in this run
    handled,       \* pathway_name -> ranks that called
                   \*   _calculate_one_pathway_kernel on it
    H,             \* rank -> self.H
    rank_kernels,  \* rank -> self.pop_kernels of that rank
    syn_pathways,  \* rank -> self.syn_pathways: pathway_name -> layered input
    funweights,    \* pathway_name -> the funweights its kernel was computed with
    stdout,        \* the lines the ranks have printed
    compiled,      \* mod_folder holds the compiled NEURON mechanisms
    mech_loaded    \* rank -> the module-level mech_loaded of that rank

updater_vars == <<pop_kernels, fr_dict, lfp, buffer, err, spikes_sent,
                  t_hist, in_order, covered, windows_disjoint, prev>>
mpi_vars == <<size, conn_probs, overwrite_kernels, pc, task_idx, files, written,
              handled, H, rank_kernels, syn_pathways, funweights, stdout,
              compiled, mech_loaded>>
vars == <<updater_vars, mpi_vars>>

-----------------------------------------------------------------------------
(* Bounds and parameters *)

\* sim_dict['sim_resolution'], in ticks
dt == 2
\* sim_dict['t_sim'], in ticks
t_sim == 4
\* self.tau of _set_kernel_params (50 ms in the source), in ticks
tau == 4
\* self.num_elecs (16 in the source)
num_elecs == 2
\* spike events the driver delivers in one run, over all batches
MaxSpikes == 2
\* largest number of MPI ranks, comm.Get_size()
MaxRanks == 2

\* net_dict['populations']
pop_names == <<"L4E", "L4I">>
\* the spike_recorder_ids argument of __init__
spike_recorder_ids == <<7718, 7719>>
\* first column of a buffer row: the registered ids and one that is not
BufferIDs == {7718, 7719, 7727}
\* third column of a buffer row; t_sim + 1 lies beyond the last grid point
SpikeTimes == 0..(t_sim + 1)

-----------------------------------------------------------------------------
(* numpy helpers: arrays are functions on 0..n-1 *)

NpLen(a) == Cardinality(DOMAIN a)

\* an array as the table of its values: numpy computes every array when it is
\* made, not one element at each later read
NpArray(a) == a @@ <<>>

NpZeros(n) == [i \in 0..(n - 1) |-> 0]

\* a[i0:i1] for 0 <= i0, clipped at the end of a as numpy does
NpSlice(a, i0, i1) ==
    LET hi == IF i1 < NpLen(a) THEN i1 ELSE NpLen(a)
    IN  NpArray([j \in 0..(hi - i0 - 1) |-> a[i0 + j]])

\* a[i0:]
NpSliceFrom(a, i0) == NpSlice(a, i0, NpLen(a))

RECURSIVE SumTo(_, _)
SumTo(g, n) == IF n < 0 THEN 0 ELSE g[n] + SumTo(g, n - 1)

\* np.sum(a)
NpSum(a) == SumTo(a, NpLen(a) - 1)

\* np.convolve(k, f, mode='full'): out[n] = sum_i k[n - i] * f[i]
NpConvolveFull(k, f) ==
    NpArray([n \in 0..(NpLen(k) + NpLen(f) - 2) |->
                SumTo([i \in 0..(NpLen(f) - 1) |->
                          IF n - i >= 0 /\ n - i < NpLen(k) THEN k[n - i] * f[i] ELSE 0],
                      NpLen(f) - 1)])

Abs(x) == IF x < 0 THEN -x ELSE x

SetMin(S) == CHOOSE x \in S : \A y \in S : x <= y
SetMax(S) == CHOOSE x \in S : \A y \in S : x >= y

-----------------------------------------------------------------------------
(* __init__ and the parameter methods *)

\* self.tvec = np.arange(int(t_sim / dt + 1)) * dt
tvec == [i \in 0..((t_sim \div dt + 1) - 1) |-> i * dt]

\* the number of lags from -tau to tau, both ends counted
kernel_length_BothEnds == 2 * (tau \div dt) + 1

\* self.kernel_length = 2 * int(self.tau / self.dt)
kernel_length == 2 * (tau \div dt)

\* self.presyn_pops = pop_names + ['TC'];  self.postsyn_pops = pop_names
presyn_pops == pop_names \o <<"TC">>
postsyn_pops == pop_names

SeqRange(s) == {s[i] : i \in DOMAIN s}

\* self.pop_IDs = {id: name for id, name in zip(spike_recorder_ids, presyn_pops)}
pop_IDs ==
    LET n == IF Len(spike_recorder_ids) < Len(presyn_pops)
             THEN Len(spike_recorder_ids) ELSE Len(presyn_pops)
    IN  [id \in {spike_recorder_ids[i] : i \in 1..n} |->
            presyn_pops[CHOOSE i \in 1..n : spike_recorder_ids[i] = id]]

\* self.fr_dict = {pop_name: np.zeros(len(self.tvec)) for pop_name in presyn_pops}
fr_dict_init == [p \in SeqRange(presyn_pops) |-> NpZeros(NpLen(tvec))]

\* self.lfp = np.zeros((self.num_elecs, len(self.tvec)))
lfp_init == [e \in 0..(num_elecs - 1) |-> NpZeros(NpLen(tvec))]

PopIndex(p) == CHOOSE i \in 1..Len(presyn_pops) : presyn_pops[i] = p

\* Kernels the updater is run with.  "unit": row 0 is one sample at L/2 and
\* the other rows are zero; "late": every row is one sample at L/2 + 1, as the
\* self-check under __main__ sets it; "full": every sample non-zero, also in
\* the first half of the kernel.  Populations differ by a factor.
KernelShapes == {"unit", "late", "full"}

KernelOf(shape) ==
    [p \in SeqRange(presyn_pops) |->
        [e \in 0..(num_elecs - 1) |->
            [i \in 0..(kernel_length - 1) |->
                CASE shape = "unit" ->
                        IF e = 0 /\ i = kernel_length \div 2 THEN PopIndex(p) ELSE 0
                  [] shape = "late" ->
                        IF i = kernel_length \div 2 + 1 THEN PopIndex(p) ELSE 0
                  [] OTHER -> (i + 1 + e) * PopIndex(p)]]]

-----------------------------------------------------------------------------
(* update(buffer), lines 844-889 *)

\* a buffer row: column 0 (spike recorder id) and column 2 (spike time);
\* column 1, the neuron id, is not read by update()
BufferRows == [id : BufferIDs, t : SpikeTimes]

\* the last index of the minimum in place of the first
NearestIdx_LastMin(t) ==
    CHOOSE i \in DOMAIN tvec :
        \A j \in DOMAIN tvec :
            \/ Abs(t - tvec[i]) < Abs(t - tvec[j])
            \/ Abs(t - tvec[i]) = Abs(t - tvec[j]) /\ i >= j

\* np.argmin(np.abs(t - self.tvec)): the first index of the minimum
NearestIdx(t) ==
    CHOOSE i \in DOMAIN tvec :
        \A j \in DOMAIN tvec :
            \/ Abs(t - tvec[i]) < Abs(t - tvec[j])
            \/ Abs(t - tvec[i]) = Abs(t - tvec[j]) /\ i <= j

\* self.tvec[-1]
tvec_last == tvec[NpLen(tvec) - 1]

BufferTimes(buf) == {buf[i].t : i \in DOMAIN buf}

\* t0_idx = np.argmin(np.abs(np.min(buffer[:, 2]) - self.tvec))
t0_idx(buf) == NearestIdx(SetMin(BufferTimes(buf)))

\* t1_idx = np.argmin(np.abs(np.max(buffer[:, 2]) - self.tvec)) + 1
t1_idx(buf) == NearestIdx(SetMax(BufferTimes(buf))) + 1

\* set(buffer[:, 0])
PopIDsOf(buf) == {buf[i].id : i \in DOMAIN buf}

\* the orders in which "for pop_ID in set(...)" can visit a set of ids
IterOrders(S) ==
    {o \in [1..Cardinality(S) -> S] : \A i, j \in DOMAIN o : i # j => o[i] # o[j]}

\* spiketimes = buffer[:, 2], the rows of every population
SpikeTimesOf_AllRows(buf, id) == [i \in DOMAIN buf |-> buf[i].t]

\* spiketimes = buffer[buffer[:, 0] == pop_ID][:, 2], in buffer order
RECURSIVE SpikeTimesOf(_, _)
SpikeTimesOf(buf, id) ==
    IF buf = <<>> THEN <<>>
    ELSE (IF Head(buf).id = id THEN <<Head(buf).t>> ELSE <<>>)
             \o SpikeTimesOf(Tail(buf), id)

\* for t_ in spiketimes: break at the first t_ > tvec[-1], else count it
RECURSIVE CountSpikes(_, _)
CountSpikes(fr, ts) ==
    IF ts = <<>> THEN fr
    ELSE IF Head(ts) > tvec_last THEN fr
    ELSE CountSpikes([fr EXCEPT ![NearestIdx(Head(ts))] = @ + 1], Tail(ts))

\* the window end without the "- 1"
window_idx1_OneMore(buf) == t1_idx(buf) + kernel_length \div 2

\* window_idx1 = t1_idx + int(self.kernel_length / 2) - 1
window_idx1(buf) == t1_idx(buf) + kernel_length \div 2 - 1

\* sig_idx0 = 0 if window_idx0 < 0 else window_idx0, window_idx0 = t0_idx
sig_idx0(buf) == IF t0_idx(buf) < 0 THEN 0 ELSE t0_idx(buf)

\* the end of the destination without the tail of the kernel: t1_idx, clipped
sig_idx1_NoTail(buf) ==
    IF t1_idx(buf) < NpLen(tvec) THEN t1_idx(buf) ELSE NpLen(tvec)

\* sig_idx1 = window_idx1 if window_idx1 < len(self.tvec) else len(self.tvec)
sig_idx1(buf) ==
    IF window_idx1(buf) < NpLen(tvec) THEN window_idx1(buf) ELSE NpLen(tvec)

\* the convolution trimmed by one sample less than L/2
TrimmedConvolution_OneLess(k_, fr_) ==
    NpSliceFrom(NpConvolveFull(k_, fr_), kernel_length \div 2 - 1)

\* lfp_ = np.convolve(k_, fr_, mode='full')[int(self.kernel_length / 2):]
TrimmedConvolution(k_, fr_) ==
    NpSliceFrom(NpConvolveFull(k_, fr_), kernel_length \div 2)

\* lines 886-889: the segment added to row[i0:i1] is lfp_ when the lengths
\* agree, else lfp_[:(i1 - i0)]
Segment(row, lfp_, i0, i1) ==
    IF NpLen(NpSlice(row, i0, i1)) = NpLen(lfp_)
    THEN lfp_ ELSE NpSlice(lfp_, 0, i1 - i0)

\* numpy adds in place a segment of the length of the destination, or of
\* length 1, and raises ValueError for any other
SegmentFits(row, lfp_, i0, i1) ==
    LET n == NpLen(Segment(row, lfp_, i0, i1))
    IN  n = NpLen(NpSlice(row, i0, i1)) \/ n = 1

\* row after row[i0:i1] = segment, an assignment in place of the addition
AddSegment_Assign(row, lfp_, i0, i1) ==
    LET seg == Segment(row, lfp_, i0, i1)
        one == NpLen(seg) = 1
    IN  NpArray([i \in DOMAIN row |->
                    IF i0 <= i /\ i < i1
                    THEN (IF one THEN seg[0] ELSE seg[i - i0])
                    ELSE row[i]])

\* row after row[i0:i1] += segment
AddSegment(row, lfp_, i0, i1) ==
    LET seg == Segment(row, lfp_, i0, i1)
        one == NpLen(seg) = 1
    IN  NpArray([i \in DOMAIN row |->
                    IF i0 <= i /\ i < i1
                    THEN row[i] + (IF one THEN seg[0] ELSE seg[i - i0])
                    ELSE row[i]])

\* one pass of the loop "for pop_ID in set(buffer[:, 0])", lines 867-889, on
\* the state st = [fr, lfp, err]
UpdatePop(st, buf, pop_ID) ==
    IF pop_ID \notin DOMAIN pop_IDs
    THEN [st EXCEPT !.err = "KeyError"]
    ELSE
      LET pop_name == pop_IDs[pop_ID]
          fr_new == CountSpikes(st.fr[pop_name], SpikeTimesOf(buf, pop_ID))
          i0 == t0_idx(buf)
          i1 == t1_idx(buf)
          s0 == sig_idx0(buf)
          s1 == sig_idx1(buf)
          fr_ == NpSlice(fr_new, i0, i1)
          lfp_ == NpArray([e \in 0..(num_elecs - 1) |->
                              TrimmedConvolution(pop_kernels[pop_name][e], fr_)])
      IN  IF \A e \in 0..(num_elecs - 1) : SegmentFits(st.lfp[e], lfp_[e], s0, s1)
          THEN [fr |-> [st.fr EXCEPT ![pop_name] = fr_new],
                lfp |-> NpArray([e \in 0..(num_elecs - 1) |->
                                    AddSegment(st.lfp[e], lfp_[e], s0, s1)]),
                err |-> "none"]
          ELSE [fr |-> [st.fr EXCEPT ![pop_name] = fr_new],
                lfp |-> st.lfp,
                err |-> "ValueError"]

\* the loop over the ids in the order the set yields them; an exception ends it
RECURSIVE UpdateLoop(_, _, _)
UpdateLoop(st, buf, order) ==
    IF order = <<>> \/ st.err # "none" THEN st
    ELSE UpdateLoop(UpdatePop(st, buf, Head(order)), buf, Tail(order))

\* sanity_test_convolution, lines 892-898: lfp_postcalc from fr_dict
RECURSIVE PostcalcSum(_, _, _, _)
PostcalcSum(fr, e, i, n) ==
    IF n = 0 THEN 0
    ELSE LET lfp_ == TrimmedConvolution(pop_kernels[presyn_pops[n]][e],
                                        fr[presyn_pops[n]])
         IN  lfp_[i] + PostcalcSum(fr, e, i, n - 1)

lfp_postcalc(fr) ==
    [e \in 0..(num_elecs - 1) |->
        [i \in 0..(NpLen(tvec) - 1) |-> PostcalcSum(fr, e, i, Len(presyn_pops))]]

\* update() without the early return of lines 857-858: an empty buffer makes
\* it add the convolution of the whole trace again
update_NoEarlyReturn(st, buf, order) ==
    IF Len(buf) = 0
    THEN [st EXCEPT !.err = "none",
                    !.lfp = [e \in 0..(num_elecs - 1) |->
                                [i \in 0..(NpLen(tvec) - 1) |->
                                    st.lfp[e][i] + lfp_postcalc(st.fr)[e][i]]]]
    ELSE UpdateLoop([st EXCEPT !.err = "none"], buf, order)

\* update(buffer) on the state st, the set of ids visited in the given order
update(st, buf, order) ==
    IF Len(buf) = 0
    THEN [st EXCEPT !.err = "none"]
    ELSE UpdateLoop([st EXCEPT !.err = "none"], buf, order)

State == [fr |-> fr_dict, lfp |-> lfp, err |-> err]

\* the grid indices of the window [t0_idx, t1_idx) of a call, lines 860-861;
\* a call on an empty buffer returns before it has one
Window(buf) == IF Len(buf) = 0 THEN {} ELSE t0_idx(buf)..(t1_idx(buf) - 1)

-----------------------------------------------------------------------------
(* The updater: the driver calls update() on one buffer after another *)

\* the MPI variables are not part of the updater's run
MpiIdle ==
    /\ size = 1
    /\ conn_probs = <<>>
    /\ overwrite_kernels = FALSE
    /\ pc = <<>>
    /\ task_idx = <<>>
    /\ files = <<>>
    /\ written = <<>>
    /\ handled = <<>>
    /\ H = <<>>
    /\ rank_kernels = <<>>
    /\ syn_pathways = <<>>
    /\ funweights = <<>>
    /\ stdout = {}
    /\ compiled = TRUE
    /\ mech_loaded = <<>>

Init ==
    /\ pop_kernels \in {KernelOf(shape) : shape \in KernelShapes}
    /\ fr_dict = fr_dict_init
    /\ lfp = lfp_init
    /\ buffer = <<>>
    /\ err = "none"
    /\ spikes_sent = 0
    /\ t_hist = -1
    /\ in_order = TRUE
    /\ covered = {}
    /\ windows_disjoint = TRUE
    /\ prev = [fr |-> fr_dict_init, lfp |-> lfp_init, err |-> "none"]
    /\ MpiIdle

\* update() with "k_ *= 2" on the kernel row, a view of self.pop_kernels, for
\* the populations of the buffer
Update_KernelInPlace(buf, order) ==
    \E st \in {update(State, buf, order)} :
        /\ fr_dict' = st.fr
        /\ lfp' = st.lfp
        /\ err' = st.err
        /\ buffer' = buf
        /\ spikes_sent' = spikes_sent + Len(buf)
        /\ t_hist' = SetMax({t_hist} \cup BufferTimes(buf))
        /\ in_order' = (/\ in_order
                        /\ \A i \in DOMAIN buf :
                               buf[i].id \in DOMAIN pop_IDs /\ buf[i].t > t_hist)
        /\ pop_kernels' =
              [p \in DOMAIN pop_kernels |->
                  IF \E i \in DOMAIN buf :
                         buf[i].id \in DOMAIN pop_IDs /\ pop_IDs[buf[i].id] = p
                  THEN [e \in DOMAIN pop_kernels[p] |->
                           [i \in DOMAIN pop_kernels[p][e] |-> 2 * pop_kernels[p][e][i]]]
                  ELSE pop_kernels[p]]
        /\ covered' = covered \cup Window(buf)
        /\ windows_disjoint' = (windows_disjoint /\ covered \cap Window(buf) = {})
        /\ prev' = [State EXCEPT !.err = "none"]
        /\ UNCHANGED mpi_vars

Update(buf, order) ==
    \E st \in {update(State, buf, order)} :
        /\ fr_dict' = st.fr
        /\ lfp' = st.lfp
        /\ err' = st.err
        /\ buffer' = buf
        /\ spikes_sent' = spikes_sent + Len(buf)
        /\ t_hist' = SetMax({t_hist} \cup BufferTimes(buf))
        /\ in_order' = (/\ in_order
                        /\ \A i \in DOMAIN buf :
                               buf[i].id \in DOMAIN pop_IDs /\ buf[i].t > t_hist)
        /\ covered' = covered \cup Window(buf)
        /\ windows_disjoint' = (windows_disjoint /\ covered \cap Window(buf) = {})
        /\ prev' = [State EXCEPT !.err = "none"]
        /\ UNCHANGED <<pop_kernels, mpi_vars>>

\* the driver delivers at most MaxSpikes events in a run
Next ==
    \E n \in 0..(MaxSpikes - spikes_sent) : \E buf \in [1..n -> BufferRows] :
        \E order \in IterOrders(PopIDsOf(buf)) : Update(buf, order)

Spec == Init /\ [][Next]_vars

-----------------------------------------------------------------------------
(* The precomputation of __init__, lines 122-127, on every MPI rank *)

Ranks == 0..(size - 1)

\* the number of passes of the double loop over postsyn_pops and presyn_pops
NumTasks == Len(postsyn_pops) * Len(presyn_pops)

\* the populations of the pass with task_idx = k
TaskPostsyn(k) == postsyn_pops[(k \div Len(presyn_pops)) + 1]
TaskPresyn(k) == presyn_pops[(k % Len(presyn_pops)) + 1]

\* pathway_name = f'{postsyn_pop}:{presyn_pop}'; the file of a pathway is
\* kernel_{pathway_name}.npy and is identified by the pathway name
PathwayName(postsyn_pop, presyn_pop) == postsyn_pop \o ":" \o presyn_pop

TaskName(k) == PathwayName(TaskPostsyn(k), TaskPresyn(k))

PathwayNames == {TaskName(k) : k \in 0..(NumTasks - 1)}

TaskOf(name) == CHOOSE k \in 0..(NumTasks - 1) : TaskName(k) = name

\* np.zeros((self.num_elecs, self.kernel_length))
ZeroKernel == [e \in 0..(num_elecs - 1) |-> NpZeros(kernel_length)]

\* k_ of lines 555-559: the kernel KernelApprox.get_kernel returns for a
\* pathway, a fixed array of shape (num_elecs, kernel_length) per pathway
ComputedKernel(name) ==
    [e \in 0..(num_elecs - 1) |->
        [i \in 0..(kernel_length - 1) |-> (4 ^ TaskOf(name)) * (1 + i + e)]]

\* a kernel file found in the folder when the run starts, left by an earlier run
LeftoverKernel(name) ==
    [e \in 0..(num_elecs - 1) |->
        [i \in 0..(kernel_length - 1) |-> 2 * (4 ^ TaskOf(name)) * (1 + i + e)]]

\* the threshold 1e-9 of line 431, in units of 1e-10
ConnProbEps == 10

\* the weight 1.0 of line 450, in units of 1e-3
LayerOne == 1000

\* self.conn_probs (net_dict['conn_probs'] and stim_dict['conn_probs_th']) in
\* units of 1e-10: every pathway connected; only the pathways of a population
\* to itself connected; probabilities at and just below the threshold
ConnProbSets == {"dense", "sparse", "edge"}

ConnProbsOf(kind) ==
    [name \in PathwayNames |->
        CASE kind = "dense" -> 1000
          [] kind = "sparse" ->
                IF TaskPostsyn(TaskOf(name)) = TaskPresyn(TaskOf(name)) THEN 1000 ELSE 0
          [] OTHER -> IF (TaskOf(name) % 2) = 0 THEN ConnProbEps ELSE ConnProbEps - 1]

\* "if task_idx % size == rank", line 644, with "<=" for "=="
AssignedTo_AtMost(k, r) == (k % size) <= r

\* "if task_idx % size == rank", line 644
AssignedTo(k, r) == (k % size) = r

\* the early returns of lines 431-437 without the test for the file
SkipsPathway_NoFileTest(name) == Abs(conn_probs[name]) < ConnProbEps

\* _calculate_one_pathway_kernel returns before computing: lines 431-437
SkipsPathway(name) ==
    \/ Abs(conn_probs[name]) < ConnProbEps
    \/ (name \in DOMAIN files /\ ~overwrite_kernels)

\* the files after np.save(filename, k_), line 562
SaveKernel(fs, name) ==
    [n \in DOMAIN fs \cup {name} |-> IF n = name THEN ComputedKernel(name) ELSE fs[n]]

\* self.layers, line 212
layers == <<"1", "23", "4", "5", "6">>

\* the index of the first layer, whatever the postsynaptic population
postsyn_l_idx_First(postsyn_pop) == 0

\* postsyn_l_idx = np.where([l_ == postsyn_pop[1:-1] for l_ in self.layers])[0][0]
postsyn_l_idx(postsyn_pop) ==
    (CHOOSE i \in DOMAIN layers :
        /\ layers[i] = SubSeq(postsyn_pop, 2, Len(postsyn_pop) - 1)
        /\ \A j \in DOMAIN layers :
              layers[j] = SubSeq(postsyn_pop, 2, Len(postsyn_pop) - 1) => i <= j) - 1

\* self.syn_pathways after _find_layer_specific_pathways, in units of 1e-3:
\* the normalised layer-specific input of every pathway, np.zeros(5) for the
\* pathways the connection data has no input for
SynPathwaysData ==
    [name \in PathwayNames |->
        IF (TaskOf(name) % 3) = 1
        THEN NpZeros(Len(layers))
        ELSE [l \in 0..(Len(layers) - 1) |->
                 CASE l = 1 -> 100 * (TaskOf(name) + 1)
                   [] l = 2 -> LayerOne - 100 * (TaskOf(name) + 1)
                   [] OTHER -> 0]]

\* layered_input after lines 439-450; np.sum(layered_input) < 1e-9 is a sum
\* below 1e-6 units, for whole numbers of units a sum below 1
LayeredInput(layered_input, postsyn_pop) ==
    IF NpSum(layered_input) < 1
    THEN [layered_input EXCEPT ![postsyn_l_idx(postsyn_pop)] = LayerOne]
    ELSE layered_input

\* print(f"{presyn_pop} to {postsyn_pop} on rank {rank}"), line 645
TaskLine(k, r) ==
    [line |-> 645, presyn_pop |-> TaskPresyn(k), postsyn_pop |-> TaskPostsyn(k),
     rank |-> r]

\* one pass of the loop of _calculate_all_pathway_kernels by rank r
CalculateStep(r) ==
    LET k == task_idx[r]
        name == TaskName(k)
    IN  /\ pc[r] = "calc"
        /\ k < NumTasks
        /\ task_idx' = [task_idx EXCEPT ![r] = k + 1]
        /\ IF AssignedTo(k, r)
           THEN /\ stdout' = stdout \cup {TaskLine(k, r)}
                /\ handled' = [handled EXCEPT ![name] = @ \cup {r}]
                /\ IF SkipsPathway(name)
                   THEN UNCHANGED <<files, written, syn_pathways, funweights>>
                   ELSE \E layered_input \in
                              {LayeredInput(syn_pathways[r][name], TaskPostsyn(k))} :
                            /\ syn_pathways' =
                                  [syn_pathways EXCEPT ![r][name] = layered_input]
                            /\ funweights' =
                                  [funweights EXCEPT ![name] = layered_input]
                            /\ files' = SaveKernel(files, name)
                            /\ written' = [written EXCEPT ![name] = @ \cup {r}]
           ELSE UNCHANGED <<files, written, handled, syn_pathways, funweights,
                            stdout>>
        /\ UNCHANGED <<size, conn_probs, overwrite_kernels, pc, H, rank_kernels,
                       compiled, mech_loaded, updater_vars>>

\* the loop is over: rank r enters comm.Barrier(), line 125
EnterBarrier(r) ==
    /\ pc[r] = "calc"
    /\ task_idx[r] = NumTasks
    /\ pc' = [pc EXCEPT ![r] = "barrier"]
    /\ UNCHANGED <<size, conn_probs, overwrite_kernels, task_idx, files, written,
                   handled, H, rank_kernels, syn_pathways, funweights, stdout,
                   compiled, mech_loaded, updater_vars>>

\* a barrier that lets a rank through as soon as it has entered
BarrierComplete_Alone == TRUE

\* comm.Barrier() returns once every rank has entered it
BarrierComplete == \A q \in Ranks : pc[q] \in {"barrier", "load", "find", "done"}

LeaveBarrier(r) ==
    /\ pc[r] = "barrier"
    /\ BarrierComplete
    /\ pc' = [pc EXCEPT ![r] = "load"]
    /\ UNCHANGED <<size, conn_probs, overwrite_kernels, task_idx, files, written,
                   handled, H, rank_kernels, syn_pathways, funweights, stdout,
                   compiled, mech_loaded, updater_vars>>

\* self.H after _load_pathway_kernels: the kernel of every file that is there
LoadedKernels(fs) == [name \in PathwayNames \cap DOMAIN fs |-> fs[name]]

LoadPathwayKernels(r) ==
    /\ pc[r] = "load"
    /\ H' = [H EXCEPT ![r] = LoadedKernels(files)]
    /\ pc' = [pc EXCEPT ![r] = "find"]
    /\ UNCHANGED <<size, conn_probs, overwrite_kernels, task_idx, files, written,
                   handled, rank_kernels, syn_pathways, funweights, stdout,
                   compiled, mech_loaded, updater_vars>>

\* pathway_name.endswith(pop_name)
EndsWith(str, suffix) ==
    /\ Len(suffix) <= Len(str)
    /\ SubSeq(str, Len(str) - Len(suffix) + 1, Len(str)) = suffix

\* pathway_name.startswith(pop_name)
StartsWith(str, prefix) ==
    /\ Len(prefix) <= Len(str)
    /\ SubSeq(str, 1, Len(prefix)) = prefix

\* the test of line 674 with startswith for endswith
PathwayMatches_Start(name, pop_name) == StartsWith(name, pop_name)

\* the test of line 674
PathwayMatches(name, pop_name) == EndsWith(name, pop_name)

KernelAdd(a, b) ==
    [e \in 0..(num_elecs - 1) |-> [i \in 0..(kernel_length - 1) |-> a[e][i] + b[e][i]]]

\* the inner loop of _find_kernels over self.H.keys(), which are in the order
\* _load_pathway_kernels inserted them, for the tasks below k
RECURSIVE SumKernels(_, _, _)
SumKernels(h, pop_name, k) ==
    IF k = 0 THEN ZeroKernel
    ELSE LET name == TaskName(k - 1)
             sum == SumKernels(h, pop_name, k - 1)
         IN  IF name \in DOMAIN h /\ PathwayMatches(name, pop_name)
             THEN KernelAdd(sum, h[name])
             ELSE sum

\* self.pop_kernels after _find_kernels
FoundKernels(h) ==
    [pop_name \in SeqRange(presyn_pops) |-> SumKernels(h, pop_name, NumTasks)]

FindKernels(r) ==
    /\ pc[r] = "find"
    /\ rank_kernels' = [rank_kernels EXCEPT ![r] = FoundKernels(H[r])]
    /\ pc' = [pc EXCEPT ![r] = "done"]
    /\ UNCHANGED <<size, conn_probs, overwrite_kernels, task_idx, files, written,
                   handled, H, syn_pathways, funweights, stdout, compiled,
                   mech_loaded, updater_vars>>

\* the updater is not run during the precomputation
UpdaterIdle ==
    /\ pop_kernels = KernelOf("unit")
    /\ fr_dict = fr_dict_init
    /\ lfp = lfp_init
    /\ buffer = <<>>
    /\ err = "none"
    /\ spikes_sent = 0
    /\ t_hist = -1
    /\ in_order = TRUE
    /\ covered = {}
    /\ windows_disjoint = TRUE
    /\ prev = [fr |-> fr_dict_init, lfp |-> lfp_init, err |-> "none"]

InitKernels ==
    /\ size \in 1..MaxRanks
    /\ conn_probs \in {ConnProbsOf(kind) : kind \in ConnProbSets}
    /\ overwrite_kernels \in BOOLEAN
    /\ \E present \in SUBSET PathwayNames :
           files = [name \in present |-> LeftoverKernel(name)]
    /\ pc = [r \in Ranks |-> "calc"]
    /\ task_idx = [r \in Ranks |-> 0]
    /\ written = [name \in PathwayNames |-> {}]
    /\ handled = [name \in PathwayNames |-> {}]
    /\ H = [r \in Ranks |-> <<>>]
    /\ rank_kernels = [r \in Ranks |-> <<>>]
    /\ syn_pathways = [r \in Ranks |-> SynPathwaysData]
    /\ funweights = [name \in PathwayNames |-> <<>>]
    /\ stdout = {}
    /\ compiled = TRUE
    /\ mech_loaded = [r \in Ranks |-> TRUE]
    /\ UpdaterIdle

NextKernels ==
    \/ \E r \in Ranks : CalculateStep(r)
    \/ \E r \in Ranks : EnterBarrier(r)
    \/ \E r \in Ranks : LeaveBarrier(r)
    \/ \E r \in Ranks : LoadPathwayKernels(r)
    \/ \E r \in Ranks : FindKernels(r)

SpecKernels == InitKernels /\ [][NextKernels]_vars

-----------------------------------------------------------------------------
(* The start-up of the module on every MPI rank, lines 45-55, followed by the
   precomputation of __init__ on the ranks that get through it *)

\* the variables the start-up leaves alone
startup_frame == <<size, conn_probs, overwrite_kernels, task_idx, files, written,
                   handled, H, rank_kernels, syn_pathways, funweights, stdout,
                   updater_vars>>

\* mech_loaded = neuron.load_mechanisms(mod_folder), line 47: true when the
\* folder holds the compiled mechanisms; "if rank==0 and not mech_loaded", line 49
LoadMechanisms(r) ==
    /\ pc[r] = "import"
    /\ mech_loaded' = [mech_loaded EXCEPT ![r] = compiled]
    /\ pc' = [pc EXCEPT ![r] = IF r = 0 /\ ~compiled THEN "compile" ELSE "mech_barrier"]
    /\ UNCHANGED <<compiled, startup_frame>>

\* os.system(nrnivmodl) and mech_loaded = neuron.load_mechanisms(mod_folder),
\* lines 50-51
CompileAndReload(r) ==
    /\ pc[r] = "compile"
    /\ compiled' = TRUE
    /\ mech_loaded' = [mech_loaded EXCEPT ![r] = TRUE]
    /\ pc' = [pc EXCEPT ![r] = "mech_barrier"]
    /\ UNCHANGED startup_frame

\* comm.Barrier(), line 54, returns once every rank has entered it
LeaveStartupBarrier(r) ==
    /\ pc[r] = "mech_barrier"
    /\ \A q \in Ranks : pc[q] \notin {"import", "compile"}
    /\ pc' = [pc EXCEPT ![r] = "assert"]
    /\ UNCHANGED <<compiled, mech_loaded, startup_frame>>

\* assert mech_loaded, line 55: the rank goes on to __init__ or ends with
\* an AssertionError
AssertMechLoaded(r) ==
    /\ pc[r] = "assert"
    /\ pc' = [pc EXCEPT ![r] = IF mech_loaded[r] THEN "calc" ELSE "failed"]
    /\ UNCHANGED <<compiled, mech_loaded, startup_frame>>

\* a run on an empty kernel folder, the mechanisms compiled beforehand or not
InitStartup ==
    /\ size \in 1..MaxRanks
    /\ conn_probs \in {ConnProbsOf(kind) : kind \in ConnProbSets}
    /\ overwrite_kernels \in BOOLEAN
    /\ files = <<>>
    /\ pc = [r \in Ranks |-> "import"]
    /\ task_idx = [r \in Ranks |-> 0]
    /\ written = [name \in PathwayNames |-> {}]
    /\ handled = [name \in PathwayNames |-> {}]
    /\ H = [r \in Ranks |-> <<>>]
    /\ rank_kernels = [r \in Ranks |-> <<>>]
    /\ syn_pathways = [r \in Ranks |-> SynPathwaysData]
    /\ funweights = [name \in PathwayNames |-> <<>>]
    /\ stdout = {}
    /\ compiled \in BOOLEAN
    /\ mech_loaded = [r \in Ranks |-> FALSE]
    /\ UpdaterIdle

NextStartup ==
    \/ \E r \in Ranks : LoadMechanisms(r)
    \/ \E r \in Ranks : CompileAndReload(r)
    \/ \E r \in Ranks : LeaveStartupBarrier(r)
    \/ \E r \in Ranks : AssertMechLoaded(r)
    \/ \E r \in Ranks : CalculateStep(r)
    \/ \E r \in Ranks : EnterBarrier(r)
    \/ \E r \in Ranks : LeaveBarrier(r)
    \/ \E r \in Ranks : LoadPathwayKernels(r)
    \/ \E r \in Ranks : FindKernels(r)

SpecStartup == InitStartup /\ [][NextStartup]_vars

-----------------------------------------------------------------------------
(* Claims on the updater *)

RECURSIVE SumOverSet(_, _)
SumOverSet(g, S) ==
    IF S = {} THEN 0
    ELSE LET x == CHOOSE y \in S : TRUE
         IN  g[x] + SumOverSet(g, S \ {x})

Elecs == 0..(num_elecs - 1)
GridIdx == 0..(NpLen(tvec) - 1)
HalfLen == kernel_length \div 2
Registered(buf) == \A i \in DOMAIN buf : buf[i].id \in DOMAIN pop_IDs

\* C1: after any sequence of update() calls on batches of registered
\* populations, each with spike times later than all spike times of the
\* batches before it, the accumulated lfp equals lfp_postcalc, the full-trace
\* convolution that sanity_test_convolution computes from the final fr_dict.
C1_IncrementalEqualsFullTrace ==
    in_order => lfp = lfp_postcalc(fr_dict)

\* C2: an update() call on a batch with an unregistered population id raises
\* and leaves fr_dict and lfp as they were before the call.
C2_UnknownPopulationLeavesState ==
    [][(~Registered(buffer')) =>
          /\ err' = "KeyError"
          /\ fr_dict' = fr_dict
          /\ lfp' = lfp]_vars

\* C3: a spike later than the last grid point alters nothing: update() on a
\* batch B of registered populations followed by one such spike leaves fr_dict
\* and lfp as update(B) leaves them (unchanged when B is empty).
C3_OutOfHorizonSpikeAltersNothing ==
    [][(/\ buffer' # <<>>
        /\ Registered(buffer')
        /\ buffer'[Len(buffer')].t > tvec_last) =>
          LET B == SubSeq(buffer', 1, Len(buffer') - 1)
          IN  \A order \in IterOrders(PopIDsOf(B)) :
                  /\ fr_dict' = update(State, B, order).fr
                  /\ lfp' = update(State, B, order).lfp]_vars

\* C4: update() on an empty batch leaves fr_dict and lfp unchanged.
C4_EmptyBatchChangesNothing ==
    [][(buffer' = <<>>) => (fr_dict' = fr_dict /\ lfp' = lfp)]_vars

\* an empty batch was delivered after spikes had been counted and added
C4_Witness ==
    /\ buffer = <<>>
    /\ spikes_sent > 0
    /\ lfp # lfp_init
    /\ fr_dict # fr_dict_init

\* number of rows of buf for population p, not beyond the last grid point,
\* whose nearest grid index is i
InHorizonSpikesAt(buf, p, i) ==
    Cardinality({k \in DOMAIN buf :
                    /\ buf[k].id \in DOMAIN pop_IDs
                    /\ pop_IDs[buf[k].id] = p
                    /\ buf[k].t <= tvec_last
                    /\ NearestIdx(buf[k].t) = i})

\* C5: one update() call on registered populations adds to every firing-rate
\* entry exactly the number of the batch's spikes of that population that are
\* not beyond the last grid point and are nearest to that grid index, wherever
\* they stand in the batch.
C5_EverySpikeIsBinned ==
    [][Registered(buffer') =>
          \A p \in SeqRange(presyn_pops) : \A i \in GridIdx :
              fr_dict'[p][i] = fr_dict[p][i] + InHorizonSpikesAt(buffer', p, i)]_vars

\* C6: from the all-zero state, one update() with a single in-horizon spike
\* of population P binned at index s gives fr[P][s] = 1 and
\* lfp[c][s + j] = kernel_P[c][L/2 + j] for 0 <= j < L/2, s + j < grid length;
\* every other firing-rate and lfp entry is zero.
C6_SingleSpikeResponse ==
    (/\ spikes_sent = 1
     /\ Len(buffer) = 1
     /\ Registered(buffer)
     /\ buffer[1].t <= tvec_last) =>
        LET P == pop_IDs[buffer[1].id]
            s == NearestIdx(buffer[1].t)
        IN  /\ \A p \in SeqRange(presyn_pops) : \A i \in GridIdx :
                  fr_dict[p][i] = IF p = P /\ i = s THEN 1 ELSE 0
            /\ \A c \in Elecs : \A i \in GridIdx :
                  lfp[c][i] = IF s <= i /\ i < s + HalfLen
                              THEN pop_kernels[P][c][HalfLen + (i - s)]
                              ELSE 0

\* the scenario of the specification: the kernel is one sample at L/2 in row
\* 0, the single spike gives lfp row 0 equal to the sample at the spike's index
C6_Witness ==
    /\ spikes_sent = 1
    /\ Len(buffer) = 1
    /\ Registered(buffer)
    /\ buffer[1].t <= tvec_last
    /\ lfp[0][NearestIdx(buffer[1].t)] # 0
    /\ \A i \in GridIdx : lfp[1][i] = 0

\* the end of the output window: min(t1_idx + L/2 - 1, grid length)
WindowEnd(buf) ==
    IF t1_idx(buf) + HalfLen - 1 < NpLen(tvec)
    THEN t1_idx(buf) + HalfLen - 1 ELSE NpLen(tvec)

\* C7: an update() call changes only lfp samples with index in
\* [t0_idx, min(t1_idx + L/2 - 1, grid length)), the addition never fails with
\* a length mismatch, and for a batch of one registered population the samples
\* added are the leading samples of the trimmed convolution of the window's
\* counts, cut to the window.
C7_OutputWindow ==
    [][(buffer' # <<>>) =>
          \E w \in {[t0 |-> t0_idx(buffer'), t1 |-> t1_idx(buffer'),
                      end |-> WindowEnd(buffer')]} :
              /\ err' # "ValueError"
              /\ \A e \in Elecs : \A i \in GridIdx :
                    (i < w.t0 \/ i >= w.end) => lfp'[e][i] = lfp[e][i]
              /\ (Registered(buffer') /\ Cardinality(PopIDsOf(buffer')) = 1) =>
                    \E p \in {pop_IDs[buffer'[1].id]} :
                    \E fr_ \in {NpSlice(fr_dict'[p], w.t0, w.t1)} :
                        \A e \in Elecs :
                            \E seg \in {TrimmedConvolution(pop_kernels[p][e], fr_)} :
                                \A i \in GridIdx :
                                    (w.t0 <= i /\ i < w.end)
                                        => lfp'[e][i] = lfp[e][i] + seg[i - w.t0]]_vars

\* a call whose window was clamped at the end of the grid and cut the segment
C7_Witness ==
    /\ buffer # <<>>
    /\ err = "none"
    /\ window_idx1(buffer) > NpLen(tvec)
    /\ t0_idx(buffer) > 0
    /\ lfp[0][NpLen(tvec) - 1] # 0
    /\ lfp[0][0] = 0

\* C12: no update() call modifies the per-population kernels; the time grid
\* tvec and the mapping pop_IDs, which update() only reads, are fixed by the
\* constructor and the same in every state.
C12_ImmutableInputs ==
    [][/\ pop_kernels' = pop_kernels
       /\ DOMAIN pop_kernels' = SeqRange(presyn_pops)
       /\ \A i \in DOMAIN buffer' :
             (buffer'[i].id \in DOMAIN pop_IDs) =>
                 pop_IDs[buffer'[i].id] \in DOMAIN pop_kernels']_vars

\* calls have read the kernels of both populations and added to lfp
C12_Witness ==
    /\ err = "none"
    /\ lfp # lfp_init
    /\ pop_kernels \in {KernelOf(shape) : shape \in KernelShapes}
    /\ \A p \in {pop_IDs[id] : id \in DOMAIN pop_IDs} :
          \E i \in GridIdx : fr_dict[p][i] > 0

\* number of rows of buf for population p
RowsOfPop(buf, p) ==
    Cardinality({k \in DOMAIN buf :
                    buf[k].id \in DOMAIN pop_IDs /\ pop_IDs[buf[k].id] = p})

\* C13: the firing-rate arrays start all zero with one entry per grid point,
\* and every update() call, failing or not, only adds to them: no entry
\* decreases, no length changes, the total increase for a population is at
\* most the number of its rows in the batch, and the array of a population
\* without a row in the batch is unchanged.
C13_FiringRateAdditiveOnly ==
    /\ \A p \in SeqRange(presyn_pops) :
          /\ p \in DOMAIN fr_dict
          /\ DOMAIN fr_dict[p] = DOMAIN tvec
          /\ \A i \in DOMAIN tvec : fr_dict[p][i] = 0
    /\ [][\A p \in SeqRange(presyn_pops) :
             /\ DOMAIN fr_dict' = DOMAIN fr_dict
             /\ DOMAIN fr_dict'[p] = DOMAIN fr_dict[p]
             /\ \A i \in GridIdx : fr_dict'[p][i] >= fr_dict[p][i]
             /\ NpSum(fr_dict'[p]) - NpSum(fr_dict[p]) <= RowsOfPop(buffer', p)
             /\ (RowsOfPop(buffer', p) = 0) => fr_dict'[p] = fr_dict[p]]_vars

\* a call on a batch of two rows of one population counted one of them, the
\* other lying beyond the grid, and left the other populations at zero
C13_Witness ==
    /\ Len(buffer) = 2
    /\ \E p \in SeqRange(presyn_pops) :
          /\ RowsOfPop(buffer, p) = 2
          /\ NpSum(fr_dict[p]) = 1
          /\ \E i \in DOMAIN buffer : buffer[i].t > tvec_last
          /\ \A q \in SeqRange(presyn_pops) \ {p} : fr_dict[q] = NpZeros(NpLen(tvec))

\* round(t / dt) of Python and numpy for t >= 0: to the nearest integer, a
\* half to the even one
RoundHalfEven(t) ==
    LET q == t \div dt
        r == t % dt
    IN  IF 2 * r < dt THEN q
        ELSE IF 2 * r > dt THEN q + 1
        ELSE IF (q % 2) = 0 THEN q ELSE q + 1

\* C15, as claimed: for every spike time t of a batch update() was called on,
\* the index of the scan equals round(t / dt), times midway between two grid
\* points and the first and last grid points included.
C15_NearestIsRound ==
    \A k \in DOMAIN buffer : NearestIdx(buffer[k].t) = RoundHalfEven(buffer[k].t)

\* C15, amended: for a spike time t of a batch, not beyond the last grid point,
\* the index of the scan equals round(t / dt) unless t is exactly midway
\* between two grid points, where the scan gives the lower of the two indices;
\* beyond the last grid point the scan gives the last index. A single counted
\* spike is counted at that index.
C15_NearestIsRoundOffMidpoints ==
    /\ \A k \in DOMAIN buffer :
          \E t \in {buffer[k].t} :
              NearestIdx(t) = IF t > tvec_last THEN NpLen(tvec) - 1
                              ELSE IF 2 * (t % dt) = dt THEN t \div dt
                              ELSE RoundHalfEven(t)
    /\ (/\ spikes_sent = 1
        /\ Len(buffer) = 1
        /\ Registered(buffer)
        /\ buffer[1].t <= tvec_last) =>
          \E t \in {buffer[1].t} :
              fr_dict[pop_IDs[buffer[1].id]]
                     [IF 2 * (t % dt) = dt THEN t \div dt ELSE RoundHalfEven(t)] = 1

\* a call counted a spike at the last grid point and a spike midway between
\* grid points 1 and 2, the latter at index 1 where round(t / dt) is 2
C15_Witness ==
    /\ err = "none"
    /\ Len(buffer) = 2
    /\ buffer[1].t = tvec_last
    /\ buffer[2].t = tvec[1] + dt \div 2
    /\ buffer[1].id = buffer[2].id
    /\ RoundHalfEven(buffer[2].t) = 2
    /\ fr_dict[pop_IDs[buffer[1].id]][1] = 1
    /\ fr_dict[pop_IDs[buffer[1].id]][2] = 1

\* the populations with a row in buf
PopsOf(buf) == {pop_IDs[id] : id \in PopIDsOf(buf) \cap DOMAIN pop_IDs}

\* C17: whatever the calls before it, an update() call on registered
\* populations adds to lfp the kernel response of the spikes it counted and
\* nothing else: the trimmed convolution, cut to the window, of the counts the
\* call itself added; counts of earlier calls are not convolved and added again.
C17_AtMostOnce ==
    [][(buffer' # <<>> /\ Registered(buffer')) =>
          \E w \in {[t0 |-> t0_idx(buffer'), t1 |-> t1_idx(buffer'),
                      end |-> WindowEnd(buffer')]} :
          \E counted \in {[p \in PopsOf(buffer') |->
                              NpSlice([i \in GridIdx |-> fr_dict'[p][i] - fr_dict[p][i]],
                                      w.t0, w.t1)]} :
              \A e \in Elecs :
                  \E seg \in {[p \in PopsOf(buffer') |->
                                  TrimmedConvolution(pop_kernels[p][e], counted[p])]} :
                      \A i \in GridIdx :
                          lfp'[e][i] - lfp[e][i] =
                              IF w.t0 <= i /\ i < w.end
                              THEN SumOverSet([p \in PopsOf(buffer') |-> seg[p][i - w.t0]],
                                              PopsOf(buffer'))
                              ELSE 0]_vars

\* every population kernel is zero on its first kernel_length / 2 samples
CausalKernels ==
    \A p \in DOMAIN pop_kernels : \A e \in Elecs : \A i \in 0..(HalfLen - 1) :
        pop_kernels[p][e][i] = 0

\* C18: with kernels that are zero on their first kernel_length / 2 samples,
\* after any sequence of update() calls whose windows [t0_idx, t1_idx) are
\* pairwise disjoint, lfp equals lfp_postcalc, the full-trace convolution that
\* sanity_test_convolution computes from fr_dict.
C18_ConditionalEquivalence ==
    (CausalKernels /\ windows_disjoint) => lfp = lfp_postcalc(fr_dict)

\* two calls with disjoint windows, the later window before the earlier one,
\* have each counted a spike, and the kernel's tail reaches past the window
C18_Witness ==
    /\ CausalKernels
    /\ windows_disjoint
    /\ spikes_sent = 2
    /\ Len(buffer) = 1
    /\ err = "none"
    /\ Cardinality(covered) = 2
    /\ t0_idx(buffer) = 0
    /\ lfp[0][1] # 0
    /\ lfp[0][2] # 0
    /\ lfp[0][0] = 0

\* the batches with the rows of buf in another order
RowPermutations(buf) ==
    {[i \in DOMAIN buf |-> buf[pi[i]]] : pi \in IterOrders(DOMAIN buf)}

\* C19: an update() call on a batch of registered populations leaves the
\* firing-rate arrays and the lfp that the call on any permutation of the
\* batch's rows leaves, from the same state, batches with spike times within
\* and beyond the grid included.
C19_BatchOrderIndependence ==
    [][Registered(buffer') =>
          \A permuted \in RowPermutations(buffer') :
              \A order \in IterOrders(PopIDsOf(permuted)) :
                  \E st \in {update(State, permuted, order)} :
                      /\ st.fr = fr_dict'
                      /\ st.lfp = lfp']_vars

\* every spike time of buf is on the grid's span
InHorizon(buf) == \A k \in DOMAIN buf : buf[k].t <= tvec_last

-----------------------------------------------------------------------------
(* Claims on the precomputation *)

\* the postsynaptic populations whose pathway from X has a loaded kernel in h
PresentPostsyn(h, X) ==
    {Y \in SeqRange(postsyn_pops) : PathwayName(Y, X) \in DOMAIN h}

\* C8: after _find_kernels, the summed kernel of every presynaptic population
\* X has shape (num_elecs, kernel_length) and is, entry by entry, the sum of
\* the loaded kernels H[Y:X] over the postsynaptic populations Y whose pathway
\* kernel is present; nothing else is added, and it is zero when none is present.
C8_KernelSummation ==
    \A r \in Ranks :
        (pc[r] = "done") =>
            \A X \in SeqRange(presyn_pops) :
                /\ DOMAIN rank_kernels[r][X] = 0..(num_elecs - 1)
                /\ \A e \in 0..(num_elecs - 1) :
                      /\ DOMAIN rank_kernels[r][X][e] = 0..(kernel_length - 1)
                      /\ \A i \in 0..(kernel_length - 1) :
                            rank_kernels[r][X][e][i] =
                                SumOverSet([Y \in PresentPostsyn(H[r], X) |->
                                               H[r][PathwayName(Y, X)][e][i]],
                                           PresentPostsyn(H[r], X))

\* a rank has summed: one population from two present pathways, one from a
\* present and an absent pathway, one from none
C8_Witness ==
    \E r \in Ranks :
        /\ pc[r] = "done"
        /\ \E X \in SeqRange(presyn_pops) :
              Cardinality(PresentPostsyn(H[r], X)) = Len(postsyn_pops)
        /\ \E X \in SeqRange(presyn_pops) :
              /\ Cardinality(PresentPostsyn(H[r], X)) = 1
              /\ rank_kernels[r][X] # ZeroKernel
        /\ \E X \in SeqRange(presyn_pops) :
              /\ PresentPostsyn(H[r], X) = {}
              /\ rank_kernels[r][X] = ZeroKernel

\* C9: no rank is in or past _load_pathway_kernels before every rank has
\* finished the loop of _calculate_all_pathway_kernels, and what a rank has
\* loaded holds every kernel written in this run.
C9_BarrierBeforeLoad ==
    \A r \in Ranks :
        /\ (pc[r] \in {"load", "find", "done"}) =>
              /\ \A q \in Ranks : pc[q] # "calc" /\ task_idx[q] = NumTasks
              /\ \A name \in PathwayNames :
                    written[name] # {} => name \in DOMAIN files
        /\ (pc[r] \in {"find", "done"}) =>
              \A name \in PathwayNames :
                  written[name] # {} =>
                      /\ name \in DOMAIN H[r]
                      /\ H[r][name] = ComputedKernel(name)

\* a rank has loaded a kernel another rank wrote, while that rank is still
\* in the barrier
C9_Witness ==
    \E r, q \in Ranks :
        /\ r # q
        /\ pc[r] \in {"find", "done"}
        /\ pc[q] = "barrier"
        /\ \E name \in PathwayNames : written[name] = {q} /\ name \in DOMAIN H[r]

\* C10: for every size, a pathway is handled by no rank but the one equal to
\* its enumeration index modulo size, by that rank once the loops are over,
\* and no kernel file is written by two ranks.
C10_RoundRobinSingleWriter ==
    \A k \in 0..(NumTasks - 1) :
        /\ handled[TaskName(k)] \subseteq {k % size}
        /\ written[TaskName(k)] \subseteq handled[TaskName(k)]
        /\ Cardinality(written[TaskName(k)]) <= 1
        /\ (\A r \in Ranks : pc[r] # "calc") => handled[TaskName(k)] = {k % size}

\* the loops are over on several ranks and two ranks have each written a file
C10_Witness ==
    /\ size > 1
    /\ \A r \in Ranks : pc[r] # "calc"
    /\ \E m, n \in PathwayNames :
          /\ written[m] = {0}
          /\ written[n] = {1}

\* the pathways with a connection probability of at least 1e-9
Connected == {name \in PathwayNames : Abs(conn_probs[name]) >= ConnProbEps}

\* C11: with overwrite_kernels false, no step of the precomputation changes or
\* removes a kernel file that exists; a file is computed and written only for
\* a pathway with connection probability at least 1e-9 whose file is missing;
\* when the loops are over every such pathway has its file, and a run started
\* on a folder that holds them all (a second complete run) writes nothing.
C11_CheckpointRestart ==
    [][(~overwrite_kernels) =>
          /\ \A name \in DOMAIN files :
                name \in DOMAIN files' /\ files'[name] = files[name]
          /\ \A name \in PathwayNames :
                (written'[name] # written[name]) =>
                    /\ name \notin DOMAIN files
                    /\ name \in Connected
                    /\ files'[name] = ComputedKernel(name)
          /\ (\A r \in Ranks : pc'[r] # "calc") => Connected \subseteq DOMAIN files'
          /\ (Connected \subseteq DOMAIN files) =>
                (files' = files /\ written' = written)]_vars

\* the loops are over: the file an earlier run left for a connected pathway
\* is as it was, and the file that was missing has been computed
C11_Witness ==
    /\ ~overwrite_kernels
    /\ \A r \in Ranks : pc[r] # "calc"
    /\ \E m, n \in Connected :
          /\ written[m] = {}
          /\ files[m] = LeftoverKernel(m)
          /\ written[n] # {}
          /\ files[n] = ComputedKernel(n)

\* the kernel of the pathway was computed in this run from connection data
\* without input for it
FallbackApplied(name) ==
    /\ funweights[name] # <<>>
    /\ NpSum(SynPathwaysData[name]) < 1

\* weight 1.0 at the layer of the postsynaptic population, 0 elsewhere
PostsynLayerOnly(name) ==
    [l \in 0..(Len(layers) - 1) |->
        IF layers[l + 1] = SubSeq(TaskPostsyn(TaskOf(name)), 2,
                                  Len(TaskPostsyn(TaskOf(name))) - 1)
        THEN LayerOne ELSE 0]

\* C14, as claimed: for a pathway computed with connection probability at
\* least 1e-9 and a layered input that sums to zero, the precomputation has
\* logged the anomaly, has used weight 1.0 at the postsynaptic layer and 0
\* elsewhere, and has gone on to save the kernel.
C14_FallbackLogged ==
    \A name \in PathwayNames :
        FallbackApplied(name) =>
            /\ \E l \in stdout : l.line \in 441..450
            /\ funweights[name] = PostsynLayerOnly(name)
            /\ name \in DOMAIN files /\ files[name] = ComputedKernel(name)

\* C14, amended: for such a pathway the precomputation has used weight 1.0 at
\* the postsynaptic layer and 0 elsewhere and has gone on to save the kernel,
\* and has printed nothing but the line of each task it handled: the anomaly
\* is not logged. A pathway with input data is computed with its data.
C14_FallbackSilent ==
    /\ \A name \in PathwayNames :
          (funweights[name] # <<>>) =>
              /\ name \in Connected
              /\ name \in DOMAIN files /\ files[name] = ComputedKernel(name)
              /\ funweights[name] = IF NpSum(SynPathwaysData[name]) < 1
                                    THEN PostsynLayerOnly(name)
                                    ELSE SynPathwaysData[name]
              /\ \A r \in written[name] : syn_pathways[r][name] = funweights[name]
    /\ stdout = {TaskLine(TaskOf(name), r) : name \in PathwayNames, r \in Ranks} \cap
                    {l \in stdout :
                        l.rank \in handled[PathwayName(l.postsyn_pop, l.presyn_pop)]}

\* the loops are over: one kernel was computed with the fallback weights and
\* one with the weights of the connection data
C14_Witness ==
    /\ \A r \in Ranks : pc[r] # "calc"
    /\ \E m, n \in PathwayNames :
          /\ FallbackApplied(m)
          /\ funweights[m][2] = LayerOne
          /\ funweights[n] # <<>>
          /\ ~FallbackApplied(n)

C21_MechAssertionHolds ==
    \A r \in Ranks :
        /\ pc[r] # "failed"
        /\ (pc[r] \notin {"import", "compile", "mech_barrier"}) => mech_loaded[r]

\* the postsynaptic populations whose pathway from X is connected and has a
\* loaded kernel in h
ConnectedPostsyn(h, X) ==
    {Y \in PresentPostsyn(h, X) : PathwayName(Y, X) \in Connected}

\* C22: for every pathway with connection probability below 1e-9, whatever
\* overwrite_kernels and the files in the folder at the start, no kernel is
\* computed or written in the run, and after _find_kernels the pathway adds
\* nothing to the summed kernel of its presynaptic population, which is the
\* sum of the kernels of the connected pathways alone.
C22_NoConnectionContributesZero ==
    /\ \A name \in PathwayNames \ Connected :
          written[name] = {} /\ funweights[name] = <<>>
    /\ \A r \in Ranks :
          (pc[r] = "done") =>
              \A X \in SeqRange(presyn_pops) : \A e \in Elecs :
                  \A i \in 0..(kernel_length - 1) :
                      rank_kernels[r][X][e][i] =
                          SumOverSet([Y \in ConnectedPostsyn(H[r], X) |->
                                         H[r][PathwayName(Y, X)][e][i]],
                                     ConnectedPostsyn(H[r], X))

====
